---- MODULE Spec2Model ----
(***************************************************************************)
(* The device pager of the devio translator (src/unnamed/part_000):        *)
(* the pager library callbacks pager_read_page / pager_write_page /        *)
(* pager_unlock_page / pager_report_extent, the lazy creation of the pager *)
(* in dev_get_memory_object, and the shutdown protocol in dev_stop_paging. *)
(* Beside it, the node lock in two RPC handlers of the file server         *)
(* libraries: netfs_S_file_set_translator (src/libnetfs/                   *)
(* file-set-translator.c) and diskfs_S_io_write (src/unnamed/part_001).    *)
(*                                                                         *)
(* Threads run the two upward calls statement by statement; the device     *)
(* (device_read / device_write) and the kernel (which drops a pager's      *)
(* port when its last user goes away) are the environment.                 *)
(***************************************************************************)
EXTENDS Integers, Sequences, FiniteSets, TLC

(***************************************************************************)
(* Bounds of the model.                                                    *)
(***************************************************************************)
\* vm_page_size, scaled down: the number of bytes of one page.
PageSize == 4
\* Device sizes range over 1..MaxSize bytes (two full pages and a tail).
MaxSize == 9
\* Number of threads that call dev_get_memory_object / dev_stop_paging.
NThreads == 2
\* pager_create is called at most MaxPagers times in one behaviour.
MaxPagers == 2
\* At most MaxBufs page buffers are held undeallocated at once.
MaxBufs == 2

Threads == 1..NThreads
PagerIds == 1..MaxPagers
BlockSizes == {1, 2}

\* The null pointer; pagers are numbered from 1.
NULL == 0
\* Port names: the memory object port of pager p is <<"port", p>>.
MACH_PORT_NULL == <<"port", NULL>>
GarbagePort == <<"port", -1>>
\* dev->pager_port_bucket: the null pointer, or the one bucket of the device.
NoBucket == "NULL"
Bucket == "bucket"
\* What a history field holds before the call has filled it in: no pager.
Unread == NULL - 1

\* error_t values that cross the pager interface.
OK == "0"
EIO == "EIO"
EROFS == "EROFS"
ENODEV == "ENODEV"
EDQUOT == "EDQUOT"
ENOSPC == "ENOSPC"

\* kern_return_t values of device_read / device_write.
D_SUCCESS == "D_SUCCESS"
DeviceReturns == {D_SUCCESS, "D_IO_ERROR", "D_NO_SUCH_DEVICE"}

\* Contents of memory that nothing has written: either value may be there.
Garbage == {0, 7}

VARIABLES
  dev,               \* struct dev: size, dev_block_size, flags (readonly, serial)
  io,                \* the last pager callback: its arguments, device traffic, results
  live_bufs,         \* page buffers handed to pager_write_page and not vm_deallocated
  pager,             \* dev->pager
  pager_port_bucket, \* dev->pager_port_bucket: NoBucket or Bucket
  ports,             \* the live ports (pagers) of the bucket
  may_cache,         \* caching attribute of every pager created so far
  n_create,          \* number of pager_create calls
  n_workers,         \* number of service_paging_requests threads forked
  lock,              \* dev->io_state lock: the set of threads holding it
  pc,                \* each thread's position
  nosync,            \* dev_stop_paging's argument
  success,           \* dev_stop_paging's local
  num_pagers,        \* dev_stop_paging's local
  memobj,            \* dev_get_memory_object's *memobj
  ret,               \* what each thread's last completed call returned
  hist,              \* per call: what the state was at entry and what the call did
  stopped,           \* has a dev_stop_paging call cleared dev->pager (success)?
  np_lock,           \* np->lock of the node of each file server: the set of holders
  rpc                \* each thread's call of a file server's RPC handler

iovars == <<io, live_bufs>>
pgvars == <<pager, pager_port_bucket, ports, may_cache, n_create, n_workers, lock, pc,
            nosync, success, num_pagers, memobj, ret, hist, stopped>>
vars == <<dev, io, live_bufs, pager, pager_port_bucket, ports, may_cache, n_create,
          n_workers, lock, pc, nosync, success, num_pagers, memobj, ret, hist,
          stopped, np_lock, rpc>>
nodevars == <<np_lock, rpc>>

(***************************************************************************)
(* The device.                                                             *)
(***************************************************************************)
DevConfigs ==
  [size : 1..MaxSize, dev_block_size : BlockSizes,
   readonly : BOOLEAN, serial : BOOLEAN]

\* The byte the device stores at byte address a (never 0, never Garbage).
DevByte(a) == 1 + (a % 3)

\* Page-aligned offsets inside the device: what the kernel may ask for.
Pages == {p \in 0..MaxSize : p % PageSize = 0 /\ p < dev.size}

\* A page-sized buffer as device_read leaves it: n bytes read from record
\* recnum on, the rest of the allocation untouched.
DeviceBuffer(recnum, n, g) ==
  [i \in 1..PageSize |->
     IF i <= n THEN DevByte(recnum * dev.dev_block_size + i - 1) ELSE g]

(***************************************************************************)
(* Pager library callbacks.                                                *)
(***************************************************************************)
\* Mutant of Want: a whole page is transferred even at the end of the device.
Want_Full(page) == PageSize

\* Bytes to transfer for the page at offset page: a partial page at the end.
Want(page) == IF page + PageSize > dev.size THEN dev.size - page ELSE PageSize

\* The record (block) number handed to device_read / device_write.
RecNum(page) == page \div dev.dev_block_size

\* Mutant of Bzero: the tail of a partial page is left as device_read left it.
Bzero_None(buf, want) == buf

\* bzero ((char *)*buf + want, vm_page_size - want)
Bzero(buf, want) == [i \in 1..PageSize |-> IF i > want THEN 0 ELSE buf[i]]

\* The buffer pager_read_page hands back.
ReadBuffer(err, buf, want) ==
  IF err = D_SUCCESS /\ want < PageSize THEN Bzero(buf, want) ELSE buf

\* Mutant of TransferResult: a short transfer passes for a complete one.
TransferResult_IgnoreShort(err, count, want) ==
  IF err # D_SUCCESS THEN EIO ELSE OK

\* The value pager_read_page and pager_write_page return after the transfer.
TransferResult(err, count, want) ==
  IF err # D_SUCCESS \/ count < want THEN EIO ELSE OK

\* *writelock = (dev->flags & DEV_READONLY)
WriteLock == dev.readonly

NoIo == [op |-> "none"]

pager_read_page ==
  \E page \in Pages, err \in DeviceReturns, g \in Garbage :
    \E read \in 0..Want(page) :
      LET want == Want(page)
          raw  == IF err = D_SUCCESS
                  THEN DeviceBuffer(RecNum(page), read, g)
                  ELSE [i \in 1..PageSize |-> g]
      IN  /\ io' = [op |-> "read", page |-> page, recnum |-> RecNum(page),
                    want |-> want, err |-> err, count |-> read,
                    buf |-> ReadBuffer(err, raw, want),
                    writelock |-> WriteLock,
                    ret |-> TransferResult(err, read, want)]
          /\ UNCHANGED <<dev, live_bufs, pgvars, nodevars>>

\* Mutant of WriteRefused: the read-only flag is not looked at.
WriteRefused_Never == FALSE

\* Does pager_write_page refuse the page without touching the device?
WriteRefused == dev.readonly

\* The number of vm_deallocate calls pager_write_page makes on its buffer.
WriteDeallocs(refused) == IF refused THEN 0 ELSE 1

pager_write_page ==
  /\ live_bufs < MaxBufs
  /\ \E page \in Pages, err \in DeviceReturns :
       \E written \in 0..Want(page) :
         LET want == Want(page)
             refused == WriteRefused
             nfree == WriteDeallocs(refused)
         IN  /\ io' = IF refused
                      THEN [op |-> "write", page |-> page, dev_writes |-> 0,
                            deallocs |-> nfree, ret |-> EROFS]
                      ELSE [op |-> "write", page |-> page, dev_writes |-> 1,
                            recnum |-> RecNum(page), want |-> want,
                            err |-> err, count |-> written,
                            deallocs |-> nfree,
                            ret |-> TransferResult(err, written, want)]
             /\ live_bufs' = live_bufs + 1 - nfree
  /\ UNCHANGED <<dev, pgvars, nodevars>>

pager_unlock_page ==
  /\ io' = [op |-> "unlock", dev_writes |-> 0,
            ret |-> IF dev.readonly THEN EROFS ELSE OK]
  /\ UNCHANGED <<dev, live_bufs, pgvars, nodevars>>

pager_report_extent ==
  /\ io' = [op |-> "extent", offset |-> 0, size |-> dev.size, ret |-> OK]
  /\ UNCHANGED <<dev, live_bufs, pgvars, nodevars>>

(***************************************************************************)
(* Initial state: a device that has just been opened.                      *)
(***************************************************************************)
NoCall == [fn |-> "none"]

\* A thread that has called no RPC handler yet.
NoRpc == [fn |-> "none", pc |-> "idle", passive_flags |-> {},
          active_flags |-> {}, err |-> "0", locked |-> 0, unlocked |-> 0,
          loose |-> FALSE, early |-> FALSE]

\* Everything but the device's identity.
Start ==
  /\ io = NoIo
  /\ live_bufs = 0
  /\ pager = NULL
  /\ pager_port_bucket = NoBucket
  /\ ports = {}
  /\ may_cache = <<>>
  /\ n_create = 0
  /\ n_workers = 0
  /\ lock = {}
  /\ pc = [t \in Threads |-> "idle"]
  /\ nosync = [t \in Threads |-> FALSE]
  /\ success = [t \in Threads |-> 1]
  /\ num_pagers = [t \in Threads |-> 0]
  /\ memobj = [t \in Threads |-> MACH_PORT_NULL]
  /\ ret = [t \in Threads |-> NoCall]
  /\ hist = [t \in Threads |-> NoCall]
  /\ stopped = FALSE
  /\ np_lock = [n \in {"netfs", "diskfs"} |-> {}]
  /\ rpc = [t \in Threads |-> NoRpc]

\* The upward calls read of the device only its class (serial or not) and
\* never its geometry: one geometry stands for all.
PagingDevs == {d \in DevConfigs : d.size = MaxSize /\ d.dev_block_size = 1}

Init == dev \in PagingDevs /\ Start

\* The page I/O callbacks are tried on every geometry.
IoInit == dev \in DevConfigs /\ Start

(***************************************************************************)
(* The ports and pager libraries, as far as the device pager uses them.    *)
(***************************************************************************)
\* The live ports (pagers) of the bucket.
LivePagers == ports

\* ports_count_bucket (dev->pager_port_bucket)
ports_count_bucket == Cardinality(LivePagers)

\* ports_bucket_iterate (bucket, fun): fun sets the caching attribute of the
\* pager it is given; c is the may_cache argument of pager_change_attributes.
ports_bucket_iterate(c) ==
  [p \in DOMAIN may_cache |-> IF p \in LivePagers THEN c ELSE may_cache[p]]

\* pager_get_port (p): the memory object port of pager p.
pager_get_port(p) == <<"port", p>>

\* The kernel drops the last user of pager p: its port leaves the bucket.
\* dev->pager is not told (pager_clear_user_data does nothing).
KernelTerminates(p) ==
  /\ p \in LivePagers
  /\ ports' = ports \ {p}
  /\ UNCHANGED <<nodevars, stopped, dev, iovars, pager, pager_port_bucket, may_cache,
                 n_create, n_workers, lock, pc,
                 nosync, success, num_pagers, memobj, ret, hist>>

(***************************************************************************)
(* The device lock.                                                        *)
(***************************************************************************)
\* The positions at which a thread calls io_state_lock, and where it goes on.
LockSites == {"gmo_lock", "stop_lock", "stop_relock"}

AfterLock(l) ==
  CASE l = "gmo_lock" -> "gmo_locked"
    [] l = "stop_lock" -> "stop_locked"
    [] l = "stop_relock" -> "stop_ret"

\* Can a thread that calls io_state_lock go on?  Only when nobody holds it.
LockAvailable(t) == lock = {}

io_state_lock(t) ==
  /\ pc[t] \in LockSites
  /\ LockAvailable(t)
  /\ lock' = {t}
  /\ pc' = [pc EXCEPT ![t] = AfterLock(pc[t])]
  /\ UNCHANGED <<nodevars, stopped, dev, iovars, pager, pager_port_bucket, ports, may_cache, n_create,
                 n_workers, nosync, success, num_pagers, memobj, ret, hist>>

io_state_unlock(t) ==
  /\ pc[t] = "gmo_unlock"
  /\ lock' = {}
  /\ pc' = [pc EXCEPT ![t] = "gmo_check"]
  /\ UNCHANGED <<nodevars, stopped, dev, iovars, pager, pager_port_bucket, ports, may_cache, n_create,
                 n_workers, nosync, success, num_pagers, memobj, ret, hist>>

(***************************************************************************)
(* dev_get_memory_object                                                   *)
(***************************************************************************)
\* Mutant of IsSerial: the device class is not looked at.
IsSerial_Never == FALSE

\* Line 230: dev_is (dev, DEV_SERIAL).
IsSerial == dev.serial

\* Lines 230-233: a serial device has no pager; any other goes on to the lock.
dev_get_memory_object(t) ==
  /\ pc[t] = "idle"
  /\ IF IsSerial
     THEN /\ ret' = [ret EXCEPT ![t] = [fn |-> "gmo", val |-> ENODEV,
                                        memobj |-> MACH_PORT_NULL]]
          /\ UNCHANGED <<pc, hist>>
     ELSE /\ pc' = [pc EXCEPT ![t] = "gmo_lock"]
          /\ hist' = [hist EXCEPT ![t] = [fn |-> "gmo", created |-> FALSE,
                                          mine |-> NULL, call_pager |-> pager,
                                          port_of |-> Unread,
                                          deref_of |-> Unread]]
          /\ UNCHANGED ret
  /\ memobj' = [memobj EXCEPT ![t] = MACH_PORT_NULL]
  /\ UNCHANGED <<nodevars, stopped, dev, iovars, pager, pager_port_bucket, ports, may_cache, n_create,
                 n_workers, lock, nosync, success, num_pagers>>

\* Mutant of NeedCreate: a pager is made on every call.
NeedCreate_Always == TRUE

\* Line 236: is a new pager to be made?
NeedCreate == pager = NULL

\* Mutant of NeedBucket: init_dev_paging is called on every call.
NeedBucket_Always == TRUE

\* Line 234: is the bucket (and its paging thread) to be made?
NeedBucket == pager_port_bucket = NoBucket

\* Lines 234-241, with the lock held: init_dev_paging, then pager_create
\* (may_cache = 1, MEMORY_OBJECT_COPY_DELAY) or ports_port_ref.
GmoLocked(t) ==
  /\ pc[t] = "gmo_locked"
  /\ LET new == n_create + 1
     IN  /\ IF NeedBucket
            THEN /\ pager_port_bucket' = Bucket
                 /\ n_workers' = n_workers + 1
            ELSE UNCHANGED <<pager_port_bucket, n_workers>>
         /\ IF NeedCreate
            THEN /\ n_create < MaxPagers
                 /\ pager' = new
                 /\ ports' = ports \cup {new}
                 /\ may_cache' = Append(may_cache, TRUE)
                 /\ n_create' = new
                 /\ hist' = [hist EXCEPT ![t].created = TRUE, ![t].mine = new]
            ELSE /\ hist' = [hist EXCEPT ![t].mine = pager]
                 /\ UNCHANGED <<pager, ports, may_cache, n_create>>
  /\ pc' = [pc EXCEPT ![t] = "gmo_unlock"]
  /\ UNCHANGED <<nodevars, stopped, dev, iovars, lock, nosync, success, num_pagers, memobj, ret>>

\* Line 244, after the lock is released: dev->pager is read again.
GmoCheck(t) ==
  /\ pc[t] = "gmo_check"
  /\ IF pager = NULL
     THEN /\ pc' = [pc EXCEPT ![t] = "idle"]
          /\ ret' = [ret EXCEPT ![t] = [fn |-> "gmo", val |-> ENODEV,
                                        memobj |-> MACH_PORT_NULL]]
     ELSE /\ pc' = [pc EXCEPT ![t] = "gmo_getport"]
          /\ UNCHANGED ret
  /\ UNCHANGED <<nodevars, stopped, dev, iovars, pager, pager_port_bucket, ports, may_cache, n_create,
                 n_workers, lock, nosync, success, num_pagers, memobj, hist>>

\* Line 247: *memobj = pager_get_port (dev->pager), dev->pager read again.
\* With dev->pager NULL by now the call dereferences NULL: the thread faults
\* or goes on with whatever it read.
GmoGetPort(t) ==
  /\ pc[t] = "gmo_getport"
  /\ IF pager # NULL
     THEN /\ memobj' = [memobj EXCEPT ![t] = pager_get_port(pager)]
          /\ pc' = [pc EXCEPT ![t] = "gmo_deref"]
     ELSE \/ /\ pc' = [pc EXCEPT ![t] = "fault"]
             /\ UNCHANGED memobj
          \/ /\ \E m \in {MACH_PORT_NULL, GarbagePort} :
                  memobj' = [memobj EXCEPT ![t] = m]
             /\ pc' = [pc EXCEPT ![t] = "gmo_deref"]
  /\ hist' = [hist EXCEPT ![t].port_of = pager]
  /\ UNCHANGED <<nodevars, stopped, dev, iovars, pager, pager_port_bucket, ports, may_cache, n_create,
                 n_workers, lock, nosync, success, num_pagers, ret>>

\* Line 248: ports_port_deref (dev->pager), dev->pager read once more.
GmoDeref(t) ==
  /\ pc[t] = "gmo_deref"
  /\ \/ pc' = [pc EXCEPT ![t] = "gmo_ret"]
     \/ /\ pager = NULL
        /\ pc' = [pc EXCEPT ![t] = "fault"]
  /\ hist' = [hist EXCEPT ![t].deref_of = pager]
  /\ UNCHANGED <<nodevars, stopped, dev, iovars, pager, pager_port_bucket, ports, may_cache, n_create,
                 n_workers, lock, nosync, success, num_pagers, memobj, ret>>

(***************************************************************************)
(* dev_stop_paging                                                         *)
(***************************************************************************)
\* Line 167: success = 1, then the call goes for the lock (line 169).
dev_stop_paging(t) ==
  /\ pc[t] = "idle"
  /\ \E ns \in BOOLEAN :
       /\ nosync' = [nosync EXCEPT ![t] = ns]
       /\ hist' = [hist EXCEPT ![t] =
                     [fn |-> "stop", nosync |-> ns,
                      call_pager |-> pager, call_live |-> LivePagers,
                      pager0 |-> Unread, num0 |-> -1, blocked |-> {},
                      slept |-> FALSE, num1 |-> -1, enabled |-> {},
                      shutdown |-> NULL, cleared |-> FALSE]]
  /\ success' = [success EXCEPT ![t] = 1]
  /\ num_pagers' = [num_pagers EXCEPT ![t] = 0]
  /\ pc' = [pc EXCEPT ![t] = "stop_lock"]
  /\ UNCHANGED <<nodevars, stopped, dev, iovars, pager, pager_port_bucket, ports, may_cache, n_create,
                 n_workers, lock, memobj, ret>>

\* Line 174: are the pagers to be asked to go away first?
MustQuiesce(n, ns) == n > 0 /\ ~ns

\* Lines 171-174: dev->pager tested, the bucket counted.
StopCheck(t) ==
  /\ pc[t] = "stop_locked"
  /\ IF pager = NULL
     THEN /\ pc' = [pc EXCEPT ![t] = "stop_clear"]
          /\ hist' = [hist EXCEPT ![t].pager0 = NULL]
          /\ UNCHANGED num_pagers
     ELSE /\ num_pagers' = [num_pagers EXCEPT ![t] = ports_count_bucket]
          /\ hist' = [hist EXCEPT ![t].pager0 = pager,
                                  ![t].num0 = ports_count_bucket]
          /\ pc' = [pc EXCEPT ![t] =
                      IF MustQuiesce(ports_count_bucket, nosync[t])
                      THEN "stop_block" ELSE "stop_shutdown"]
  /\ UNCHANGED <<nodevars, stopped, dev, iovars, pager, pager_port_bucket, ports, may_cache, n_create,
                 n_workers, lock, nosync, success, memobj, ret>>

\* Lines 176-181: the may_cache argument block_cache gives to
\* pager_change_attributes.
block_cache == FALSE

\* Mutant of enable_cache: caching is left off.
enable_cache_Off == FALSE

\* Lines 182-187: the may_cache argument enable_cache gives to
\* pager_change_attributes.
enable_cache == TRUE

\* Mutant of StopBlockCache: the lock is dropped before the wait.
StopBlockCache_Unlocks(t) ==
  /\ pc[t] = "stop_block"
  /\ may_cache' = ports_bucket_iterate(block_cache)
  /\ hist' = [hist EXCEPT ![t].blocked = LivePagers]
  /\ pc' = [pc EXCEPT ![t] = "stop_sleep"]
  /\ lock' = {}
  /\ UNCHANGED <<nodevars, stopped, dev, iovars, pager, pager_port_bucket, ports, n_create, n_workers,
                 nosync, success, num_pagers, memobj, ret>>

\* Line 191: ports_bucket_iterate (bucket, block_cache); block_cache is
\* pager_change_attributes (p, 0, MEMORY_OBJECT_COPY_DELAY, 1).
StopBlockCache(t) ==
  /\ pc[t] = "stop_block"
  /\ may_cache' = ports_bucket_iterate(block_cache)
  /\ hist' = [hist EXCEPT ![t].blocked = LivePagers]
  /\ pc' = [pc EXCEPT ![t] = "stop_sleep"]
  /\ UNCHANGED <<nodevars, stopped, dev, iovars, pager, pager_port_bucket, ports, n_create, n_workers,
                 lock, nosync, success, num_pagers, memobj, ret>>

\* Line 195: sleep (1).
StopSleep(t) ==
  /\ pc[t] = "stop_sleep"
  /\ hist' = [hist EXCEPT ![t].slept = TRUE]
  /\ pc' = [pc EXCEPT ![t] = "stop_recount"]
  /\ UNCHANGED <<nodevars, stopped, dev, iovars, pager, pager_port_bucket, ports, may_cache, n_create,
                 n_workers, lock, nosync, success, num_pagers, memobj, ret>>

\* Lines 197-198: the bucket counted again.
StopRecount(t) ==
  /\ pc[t] = "stop_recount"
  /\ num_pagers' = [num_pagers EXCEPT ![t] = ports_count_bucket]
  /\ hist' = [hist EXCEPT ![t].num1 = ports_count_bucket]
  /\ pc' = [pc EXCEPT ![t] =
              IF ports_count_bucket > 0 THEN "stop_enable" ELSE "stop_shutdown"]
  /\ UNCHANGED <<nodevars, stopped, dev, iovars, pager, pager_port_bucket, ports, may_cache, n_create,
                 n_workers, lock, nosync, success, memobj, ret>>

\* Lines 202-203: ports_bucket_iterate (bucket, enable_cache); enable_cache
\* is pager_change_attributes (p, 1, MEMORY_OBJECT_COPY_DELAY, 0); success = 0.
StopEnableCache(t) ==
  /\ pc[t] = "stop_enable"
  /\ may_cache' = ports_bucket_iterate(enable_cache)
  /\ hist' = [hist EXCEPT ![t].enabled = LivePagers]
  /\ success' = [success EXCEPT ![t] = 0]
  /\ pc' = [pc EXCEPT ![t] = "stop_shutdown"]
  /\ UNCHANGED <<nodevars, stopped, dev, iovars, pager, pager_port_bucket, ports, n_create, n_workers,
                 lock, nosync, num_pagers, memobj, ret>>

\* Mutant of ShouldShutdown: nosync is not looked at.
ShouldShutdown_IgnoreNosync(ok, ns) == ok = 1

\* Line 207: is pager_shutdown to be called?
ShouldShutdown(ok, ns) == ok = 1 /\ ~ns

\* Lines 207-212: pager_shutdown (dev->pager), which ends the pager: its
\* port leaves the bucket.
StopShutdown(t) ==
  /\ pc[t] = "stop_shutdown"
  /\ IF ShouldShutdown(success[t], nosync[t])
     THEN /\ ports' = ports \ {pager}
          /\ hist' = [hist EXCEPT ![t].shutdown = pager]
     ELSE UNCHANGED <<ports, hist>>
  /\ pc' = [pc EXCEPT ![t] = "stop_clear"]
  /\ UNCHANGED <<nodevars, stopped, dev, iovars, pager, pager_port_bucket, ports, may_cache, n_create,
                 n_workers, lock, nosync, success, num_pagers, memobj, ret>>

\* Lines 215-216: if (success) dev->pager = NULL.  Line 218 follows, and it
\* is io_state_lock, not io_state_unlock.
StopClear(t) ==
  /\ pc[t] = "stop_clear"
  /\ IF success[t] = 1
     THEN /\ pager' = NULL
          /\ hist' = [hist EXCEPT ![t].cleared = TRUE]
          /\ stopped' = TRUE
     ELSE UNCHANGED <<pager, hist, stopped>>
  /\ pc' = [pc EXCEPT ![t] = "stop_relock"]
  /\ UNCHANGED <<nodevars, dev, iovars, pager_port_bucket, ports, may_cache, n_create,
                 n_workers, lock, nosync, success, num_pagers, memobj, ret>>

(***************************************************************************)
(* Returning to the caller.                                                *)
(***************************************************************************)
\* Lines 250-256 (dev_get_memory_object: a send right is made for a port
\* that is not MACH_PORT_NULL) and line 220 (dev_stop_paging).
Return(t) ==
  /\ pc[t] \in {"gmo_ret", "stop_ret"}
  /\ ret' = [ret EXCEPT ![t] =
               IF pc[t] = "gmo_ret"
               THEN [fn |-> "gmo", val |-> OK, memobj |-> memobj[t]]
               ELSE [fn |-> "stop", val |-> success[t]]]
  /\ pc' = [pc EXCEPT ![t] = "idle"]
  /\ UNCHANGED <<nodevars, stopped, dev, iovars, pager, pager_port_bucket, ports, may_cache, n_create,
                 n_workers, lock, nosync, success, num_pagers, memobj, hist>>

(***************************************************************************)
(* Specifications.                                                         *)
(***************************************************************************)
\* A step of thread t inside a call it has begun.
Proc(t) ==
  \/ io_state_lock(t)
  \/ io_state_unlock(t)
  \/ GmoLocked(t)
  \/ GmoCheck(t)
  \/ GmoGetPort(t)
  \/ GmoDeref(t)
  \/ StopCheck(t)
  \/ StopBlockCache(t)
  \/ StopSleep(t)
  \/ StopRecount(t)
  \/ StopEnableCache(t)
  \/ StopShutdown(t)
  \/ StopClear(t)
  \/ Return(t)

Next ==
  \/ \E t \in Threads : dev_get_memory_object(t)
  \/ \E t \in Threads : dev_stop_paging(t)
  \/ \E t \in Threads : io_state_lock(t)
  \/ \E t \in Threads : io_state_unlock(t)
  \/ \E t \in Threads : GmoLocked(t)
  \/ \E t \in Threads : GmoCheck(t)
  \/ \E t \in Threads : GmoGetPort(t)
  \/ \E t \in Threads : GmoDeref(t)
  \/ \E t \in Threads : StopCheck(t)
  \/ \E t \in Threads : StopBlockCache(t)
  \/ \E t \in Threads : StopSleep(t)
  \/ \E t \in Threads : StopRecount(t)
  \/ \E t \in Threads : StopEnableCache(t)
  \/ \E t \in Threads : StopShutdown(t)
  \/ \E t \in Threads : StopClear(t)
  \/ \E t \in Threads : Return(t)
  \/ \E p \in PagerIds : KernelTerminates(p)

Spec == Init /\ [][Next]_vars

\* A thread inside a call takes its next step whenever it can: the calls
\* run on RPC threads that the scheduler does not starve.  Beginning a call
\* and the kernel dropping a pager are not forced.
FairSpec == Spec /\ \A t \in Threads : WF_vars(Proc(t))

\* The page I/O callbacks, as the paging thread dispatches them.
IoNext ==
  \/ pager_read_page
  \/ pager_write_page
  \/ pager_unlock_page
  \/ pager_report_extent

IoSpec == IoInit /\ [][IoNext]_vars

(***************************************************************************)
(* Positions of a dev_stop_paging call.                                    *)
(***************************************************************************)
\* The call of thread t is a dev_stop_paging call.
IsStop(t) == hist[t].fn = "stop"

\* ... that has passed lines 207-212, where pager_shutdown may be called.
PastShutdown(t) ==
  IsStop(t) /\ pc[t] \in {"stop_clear", "stop_relock", "stop_ret", "idle"}

\* ... that has passed lines 215-216: its effects and its result are fixed,
\* only line 218 and the return statement are left.
PastClear(t) == IsStop(t) /\ pc[t] \in {"stop_relock", "stop_ret", "idle"}

\* ... that has returned to its caller.
StopReturned(t) == IsStop(t) /\ pc[t] = "idle" /\ ret[t].fn = "stop"

\* Line 218 takes the lock the call already holds: no dev_stop_paging call
\* gets past it, so none returns.
StopNeverReturns == \A t \in Threads : pc[t] # "stop_ret" /\ ~StopReturned(t)

(***************************************************************************)
(* C1.  dev_stop_paging (dev, nosync = 1) with at least one live pager in  *)
(* the bucket fails and does not clear dev->pager.                         *)
(* The code does not do this: with nosync set the quiesce block is skipped *)
(* whatever the count, success stays 1 and line 216 clears dev->pager.     *)
(***************************************************************************)
C1_NosyncKeepsLivePager ==
  \A t \in Threads :
    (PastClear(t) /\ hist[t].nosync /\ hist[t].num0 > 0)
      => (success[t] = 0 /\ ~hist[t].cleared /\ pager = hist[t].pager0)

(***************************************************************************)
(* C2.  dev_stop_paging (dev, nosync = 0) that finds a pager still live at *)
(* the re-count returns failure, with dev->pager unchanged and every live  *)
(* pager back in the caching-enabled policy.                               *)
(* The call never returns (line 218, see C18).  What it has done by then   *)
(* is as claimed: C2_AbortRollsBack.                                       *)
(***************************************************************************)
C2_AbortReturnsFailure ==
  \A t \in Threads :
    (pc[t] = "stop_enable")
      ~> (/\ StopReturned(t)
          /\ ret[t].val = 0
          /\ pager = hist[t].pager0
          /\ \A p \in LivePagers : may_cache[p])

\* The part of C2 the code does keep: once an aborted call has passed line
\* 216, success is 0, dev->pager is what it was and is not NULL, and no
\* live pager is left with caching disabled.
C2_AbortRollsBack ==
  \A t \in Threads :
    (PastClear(t) /\ hist[t].num1 > 0)
      => (/\ success[t] = 0
          /\ pager = hist[t].pager0 /\ pager # NULL
          /\ \A p \in LivePagers : may_cache[p])

(***************************************************************************)
(* C3.  dev_stop_paging (dev, nosync = 0) that finds no live pager returns *)
(* success with dev->pager NULL; a pager that was set is shut down first,  *)
(* no caching policy is changed and the call does not sleep.               *)
(* The call never returns (line 218, see C18).  What it has done by then   *)
(* is as claimed: C3_IdleStopClears.                                       *)
(***************************************************************************)
C3_IdleStopReturnsSuccess ==
  \A t \in Threads :
    (pc[t] = "stop_shutdown" /\ ~nosync[t] /\ hist[t].num0 = 0)
      ~> (StopReturned(t) /\ ret[t].val = 1 /\ pager = NULL)

\* The part of C3 the code does keep.
C3_IdleStopClears ==
  \A t \in Threads :
    (PastClear(t) /\ ~hist[t].nosync /\ hist[t].num0 <= 0)
      => (/\ success[t] = 1 /\ hist[t].cleared
          /\ hist[t].shutdown = hist[t].pager0
          /\ hist[t].blocked = {} /\ hist[t].enabled = {}
          /\ ~hist[t].slept)

(***************************************************************************)
(* C4.  After a dev_stop_paging call has failed, the device works as       *)
(* before: every call in progress on it, the failed one included, comes    *)
(* to its end instead of waiting for the device lock forever,              *)
(* and dev_get_memory_object hands back the port of the pager there was.  *)
(* The code does not do this: the failed call waits at line 218 for the    *)
(* lock it holds, and every other call waits behind it.                    *)
(***************************************************************************)
StopFailed(t) == IsStop(t) /\ success[t] = 0

C4_FailedStopLeavesDeviceWorking ==
  \A t \in Threads : \A u \in Threads :
    (StopFailed(t) /\ pc[u] \notin {"idle", "fault"})
      ~> (/\ pc[u] = "idle"
          /\ hist[u].fn = "gmo" =>
               /\ IsStop(t)
               /\ ret[u] = [fn |-> "gmo", val |-> OK,
                            memobj |-> pager_get_port(hist[t].pager0)])

(***************************************************************************)
(* C5.  pager_write_page deallocates the buffer it is given exactly once   *)
(* on every path, so no buffer handed to it stays allocated.               *)
(* The code does not do this: the read-only path returns EROFS at line 74  *)
(* before the vm_deallocate of line 88.                                    *)
(***************************************************************************)
C5_WritePageFreesBuffer ==
  /\ io.op = "write" => io.deallocs = 1
  /\ live_bufs = 0

(***************************************************************************)
(* C6.  Every error pager_read_page or pager_write_page returns is one of  *)
(* EIO, EDQUOT and ENOSPC.                                                 *)
(* The code does not do this: pager_write_page returns EROFS for a         *)
(* read-only device.                                                       *)
(***************************************************************************)
C6_ErrorVocabulary ==
  io.op \in {"read", "write"} => io.ret \in {OK, EIO, EDQUOT, ENOSPC}

C8_ShutdownExactlyWhen ==
  \A t \in Threads :
    IsStop(t) =>
      /\ hist[t].shutdown \in {NULL, hist[t].pager0}
      /\ hist[t].nosync => hist[t].shutdown = NULL
      /\ (hist[t].shutdown # NULL /\ hist[t].num0 > 0) => hist[t].num1 = 0
      /\ ~PastShutdown(t) => hist[t].shutdown = NULL
      /\ PastShutdown(t) =>
           (hist[t].shutdown # NULL
              <=> (/\ hist[t].pager0 # NULL
                   /\ ~hist[t].nosync
                   /\ (hist[t].num0 = 0 \/ hist[t].num1 = 0)))

\* A call that slept, found the bucket empty after it, and shut the pager down.
C8_Witness ==
  \E t \in Threads :
    /\ PastShutdown(t) /\ hist[t].num0 > 0 /\ hist[t].num1 = 0
    /\ hist[t].slept /\ hist[t].shutdown # NULL

(***************************************************************************)
(* C9.  For the last, partial page (p < size < p + page size)              *)
(* pager_read_page asks the device for size - p bytes at record            *)
(* p / block size, and when the device delivers them all it returns 0 with *)
(* a page whose first size - p bytes are the device's and whose other      *)
(* bytes are 0.                                                            *)
(***************************************************************************)
C9_PartialTailRead ==
  (io.op = "read" /\ io.page < dev.size /\ dev.size < io.page + PageSize) =>
    /\ io.want = dev.size - io.page
    /\ io.recnum = io.page \div dev.dev_block_size
    /\ (io.err = D_SUCCESS /\ io.count = dev.size - io.page) =>
         /\ io.ret = OK
         /\ DOMAIN io.buf = 1..PageSize
         /\ \A i \in 1..PageSize :
              io.buf[i] = IF i <= dev.size - io.page
                          THEN DevByte(io.recnum * dev.dev_block_size + i - 1)
                          ELSE 0

\* A partial page was read in full and returned.
C9_Witness ==
  /\ io.op = "read" /\ dev.size < io.page + PageSize
  /\ io.err = D_SUCCESS /\ io.count = dev.size - io.page /\ io.ret = OK
  /\ io.page > 0

(***************************************************************************)
(* C10.  For a page that lies wholly inside the device (p + page size <=   *)
(* size) pager_read_page asks for a whole page at record p / block size,   *)
(* returns EIO when the device reports an error or delivers fewer bytes    *)
(* and 0 otherwise, and sets *writelock to the device's read-only flag     *)
(* whatever the outcome.                                                   *)
(***************************************************************************)
C10_FullPageRead ==
  (io.op = "read" /\ io.page + PageSize <= dev.size) =>
    /\ io.want = PageSize
    /\ io.recnum = io.page \div dev.dev_block_size
    /\ io.ret = (IF io.err # D_SUCCESS \/ io.count < PageSize THEN EIO ELSE OK)
    /\ io.writelock = dev.readonly

\* A whole page of a read-only device came back short: EIO, write-locked.
C10_Witness ==
  /\ io.op = "read" /\ io.page + PageSize <= dev.size
  /\ io.err = D_SUCCESS /\ io.count < PageSize /\ io.ret = EIO
  /\ dev.readonly /\ io.writelock

(***************************************************************************)
(* C11.  On a writable device pager_write_page makes one device_write, of  *)
(* min (page size, size - p) bytes at record p / block size, and returns   *)
(* EIO if and only if the device reports fewer bytes written than asked.   *)
(* As stated this fails: EIO is also returned when device_write reports an *)
(* error, whatever the count (line 90: err || written < want).             *)
(***************************************************************************)
\* What C11 says of the device traffic of a write.
C11_OneWrite ==
  /\ io.dev_writes = 1
  /\ io.want = (IF dev.size - io.page < PageSize
                THEN dev.size - io.page ELSE PageSize)
  /\ io.recnum = io.page \div dev.dev_block_size

C11_EioIffShortWrite ==
  (io.op = "write" /\ ~dev.readonly) =>
    /\ C11_OneWrite
    /\ io.ret \in {OK, EIO}
    /\ io.ret = EIO <=> io.count < io.want

\* C11 as amended: EIO if and only if the device reports an error or fewer
\* bytes written than asked.
C11_EioIffErrorOrShortWrite ==
  (io.op = "write" /\ ~dev.readonly) =>
    /\ C11_OneWrite
    /\ io.ret \in {OK, EIO}
    /\ io.ret = EIO <=> (io.err # D_SUCCESS \/ io.count < io.want)

\* A partial last page was written short, and another write failed outright.
C11_Witness ==
  /\ io.op = "write" /\ ~dev.readonly /\ io.ret = EIO
  /\ io.want < PageSize /\ io.page > 0
  /\ io.err = D_SUCCESS /\ io.count < io.want

(***************************************************************************)
(* C12.  dev_get_memory_object on a serial device returns ENODEV and       *)
(* leaves the descriptor as it was: no call is ever at or past the lock of *)
(* line 233, no bucket and no paging thread is made, no pager is made.     *)
(***************************************************************************)
\* Thread t is inside dev_get_memory_object, at or past its io_state_lock.
InGmo(t) ==
  pc[t] \in {"gmo_lock", "gmo_locked", "gmo_unlock", "gmo_check",
             "gmo_getport", "gmo_deref", "gmo_ret"}

C12_SerialFrame ==
  dev.serial =>
    /\ pager = NULL /\ ports = {} /\ n_create = 0
    /\ pager_port_bucket = NoBucket /\ n_workers = 0
    /\ \A t \in Threads :
         /\ ~InGmo(t) /\ pc[t] # "fault" /\ hist[t].fn # "gmo"
         /\ ret[t].fn = "gmo" => ret[t].val = ENODEV

\* Both threads have called dev_get_memory_object on a serial device, one of
\* them while the other ran dev_stop_paging and held the lock.
C12_Witness ==
  /\ dev.serial
  /\ \E t, u \in Threads :
       /\ t # u /\ ret[t].fn = "gmo" /\ pc[t] = "idle"
       /\ lock = {u} /\ IsStop(u)

InGraceWait(t) == pc[t] \in {"stop_sleep", "stop_recount"}

\* Thread u is in the locked part of dev_get_memory_object (lines 234-242).
InGmoLocked(u) == pc[u] \in {"gmo_locked", "gmo_unlock"}

C14_WaitWithoutLock ==
  \A t \in Threads : InGraceWait(t) => t \notin lock

\* C14 as amended: the caller of dev_stop_paging holds the lock throughout
\* the wait, and no dev_get_memory_object is in its locked part meanwhile.
C14_WaitHoldsLock ==
  \A t \in Threads :
    InGraceWait(t) =>
      /\ lock = {t}
      /\ \A u \in Threads : ~InGmoLocked(u)

\* The wait is over, and a dev_get_memory_object that came meanwhile is
\* still in front of line 233.
C14_Witness ==
  \E t, u \in Threads :
    /\ pc[t] = "stop_recount" /\ hist[t].slept
    /\ pc[u] = "gmo_lock"

(***************************************************************************)
(* C15.  Whatever the calls and their interleaving, the bucket is made at  *)
(* most once and its paging thread is started at most once, both in a step *)
(* of dev_get_memory_object that holds the lock; once set, the bucket      *)
(* pointer is never cleared or set again, not even by a dev_stop_paging    *)
(* that succeeds.                                                          *)
(***************************************************************************)
\* A step that calls init_dev_paging.
InitsPaging ==
  pager_port_bucket' # pager_port_bucket \/ n_workers' # n_workers

C15_BucketOnce ==
  /\ [](/\ n_workers <= 1
        /\ pager_port_bucket = Bucket <=> n_workers = 1)
  /\ [][pager_port_bucket # NoBucket =>
          pager_port_bucket' = pager_port_bucket]_vars
  /\ [][InitsPaging =>
          \E t \in Threads : /\ lock = {t} /\ lock' = {t}
                             /\ pc[t] = "gmo_locked"
                             /\ pc'[t] = "gmo_unlock"]_vars

\* The bucket outlives a dev_stop_paging that cleared dev->pager, and a
\* dev_get_memory_object that found the bucket in place has returned.
C15_Witness ==
  /\ stopped /\ pager = NULL
  /\ pager_port_bucket = Bucket /\ n_workers = 1
  /\ \E t \in Threads :
       /\ pc[t] = "idle" /\ hist[t].fn = "gmo" /\ ~hist[t].created

(***************************************************************************)
(* C16.  References are balanced for each pager under every interleaving:  *)
(* a dev_get_memory_object that took a reference (pager_create's at line   *)
(* 238 or ports_port_ref's at line 241) drops one reference on that very   *)
(* pager; nothing else is given to ports_port_deref, and no call returns   *)
(* with its reference still held.                                          *)
(* The code does not keep this: lines 244 and 248 read dev->pager again    *)
(* after the unlock of line 242.                                           *)
(***************************************************************************)
\* The pager on which call t took its reference (hist.mine) and the one it
\* gave to ports_port_deref (hist.deref_of, Unread before line 248).
C16_RefsBalanced ==
  \A t \in Threads :
    hist[t].fn = "gmo" =>
      /\ hist[t].deref_of \in {Unread, hist[t].mine}
      /\ (pc[t] = "idle" /\ hist[t].mine # NULL) =>
           hist[t].deref_of = hist[t].mine

(***************************************************************************)
(* C17.  Caching is off only in passing: whenever no dev_stop_paging is    *)
(* between its block_cache pass and the end of its enable_cache pass (so   *)
(* in particular whenever no dev_stop_paging is in progress at all), every *)
(* live pager of the bucket has may_cache = 1; no pager made by a          *)
(* dev_get_memory_object that overlaps a stop is left with caching off.    *)
(***************************************************************************)
\* Thread t has switched caching off and not yet decided what to do next.
InBlockedWindow(t) == pc[t] \in {"stop_sleep", "stop_recount", "stop_enable"}

C17_ImmediateOnlyTransient ==
  (\A t \in Threads : ~InBlockedWindow(t)) =>
    \A p \in LivePagers : may_cache[p]

\* A stop has switched caching off and on again for a pager that is still
\* alive, while a dev_get_memory_object was under way beside it.
C17_Witness ==
  \E t, u \in Threads :
    /\ IsStop(t) /\ PastClear(t)
    /\ hist[t].blocked # {} /\ hist[t].enabled = hist[t].blocked
    /\ hist[t].enabled \subseteq LivePagers
    /\ InGmo(u)

(***************************************************************************)
(* C18.  The device lock is balanced: every dev_stop_paging that is called *)
(* comes back in the end, and when it has come back its caller does not    *)
(* hold the io_state lock; the same for dev_get_memory_object.             *)
(* The code does not keep this: line 218 locks again what line 169 locked. *)
(***************************************************************************)
\* Stated of calls that have the lock already, so that waiting for it at
\* the first line plays no part.
C18_LockBalance ==
  \A t \in Threads :
    /\ pc[t] = "stop_locked" ~> (StopReturned(t) /\ t \notin lock)
    /\ pc[t] = "gmo_locked" ~> (pc[t] \in {"idle", "fault"} /\ t \notin lock)

(***************************************************************************)
(* C19.  A dev_get_memory_object that runs beside dev_stop_paging works on *)
(* the pager it made or referenced under the lock: pager_get_port and      *)
(* ports_port_deref are never given NULL or another pager, and a call      *)
(* whose pager_create succeeded does not return ENODEV.                    *)
(* The code does not keep this: lines 244, 247 and 248 each read           *)
(* dev->pager anew, after the lock was released at line 242.               *)
(***************************************************************************)
C19_OwnPager ==
  \A t \in Threads :
    hist[t].fn = "gmo" =>
      /\ pc[t] # "fault"
      /\ hist[t].port_of # NULL /\ hist[t].deref_of # NULL
      /\ hist[t].port_of \in {Unread, hist[t].mine}
      /\ hist[t].deref_of \in {Unread, hist[t].port_of}
      /\ ~(pc[t] = "idle" /\ hist[t].created /\ ret[t].val = ENODEV)

(***************************************************************************)
(* The node lock in netfs_S_file_set_translator and diskfs_S_io_write.     *)
(* Each library has its own node; np_lock[n] is the set of threads that    *)
(* hold np->lock of node n.  rpc[t] is thread t's call: the handler (fn),  *)
(* the position (pc), the flag arguments, err, and what the call did to    *)
(* the lock: the number of mutex_lock and mutex_unlock calls (locked,      *)
(* unlocked), whether it unlocked while not holding (loose), and whether   *)
(* it returned in front of the first mutex_lock (early).                   *)
(* The asserts of both handlers are taken to hold.                         *)
(***************************************************************************)
EOPNOTSUPP == "EOPNOTSUPP"
EBUSY == "EBUSY"
EINVAL == "EINVAL"
EBADF == "EBADF"

\* error_t values of the calls the handlers make with the lock held.
CalleeErrors == {OK, EIO}
\* error_t values of fsys_goaway; lines 78-80 turn the last two into 0.
GoawayErrors == {OK, EBUSY, "MIG_SERVER_DIED", "MACH_SEND_INVALID_DEST"}

\* The flags of <hurd/fs.defs> that the handler looks at.
FS_TRANS_SET == "FS_TRANS_SET"
FS_TRANS_EXCL == "FS_TRANS_EXCL"
\* FS_TRANS_FORCE only takes part in newmode (line 106), which FstPassive
\* chooses together with the passive string.
PassiveFlags == SUBSET {FS_TRANS_SET, FS_TRANS_EXCL}
ActiveFlags == SUBSET {FS_TRANS_SET, FS_TRANS_EXCL}

\* The node whose lock the handler of thread t uses.
Node(t) == IF rpc[t].fn = "diskfs_S_io_write" THEN "diskfs" ELSE "netfs"

Holds(t) == t \in np_lock[Node(t)]

\* A call that has got as far as its mutex_lock.
Entered(f, pf, af) ==
  [fn |-> f, pc |-> "lock", passive_flags |-> pf, active_flags |-> af,
   err |-> OK, locked |-> 0, unlocked |-> 0, loose |-> FALSE,
   early |-> FALSE]

\* A call that has returned e in front of its mutex_lock.
EarlyReturn(f, e) ==
  [fn |-> f, pc |-> "idle", passive_flags |-> {}, active_flags |-> {},
   err |-> e, locked |-> 0, unlocked |-> 0, loose |-> FALSE, early |-> TRUE]

\* The positions at which a mutex_lock (&np->lock) stands (lines 49 and 81
\* of file-set-translator.c, line 41 of part_001), and what follows it.
NodeLockSites == {"lock", "relock"}

AfterNodeLock(r) ==
  IF r.fn = "diskfs_S_io_write" THEN "iow_body"
  ELSE IF r.pc = "lock" THEN "fst_active" ELSE "fst_passive"

\* mutex_lock (&np->lock): waits until the lock is free.
mutex_lock(t) ==
  /\ rpc[t].pc \in NodeLockSites
  /\ np_lock[Node(t)] = {}
  /\ np_lock' = [np_lock EXCEPT ![Node(t)] = {t}]
  /\ rpc' = [rpc EXCEPT ![t].pc = AfterNodeLock(rpc[t]),
                        ![t].locked = @ + 1]
  /\ UNCHANGED <<dev, iovars, pgvars>>

\* mutex_unlock (&np->lock) by thread t: the lock is free afterwards,
\* whoever held it.
mutex_unlock(t) == [np_lock EXCEPT ![Node(t)] = {}]

\* rpc[t] after that mutex_unlock.
Unlocked(t) ==
  [rpc[t] EXCEPT !.unlocked = @ + 1, !.loose = @ \/ ~Holds(t)]

\* return e; the arguments are gone with the call.
Returns(r, e) ==
  [r EXCEPT !.pc = "idle", !.err = e, !.passive_flags = {},
            !.active_flags = {}]

\* Mutant of ReturnUnlocked: the return without the mutex_unlock.
ReturnUnlocked_Keeps(t, e) ==
  /\ UNCHANGED np_lock
  /\ rpc' = [rpc EXCEPT ![t] = Returns(rpc[t], e)]

\* mutex_unlock (&np->lock); return e;
ReturnUnlocked(t, e) ==
  /\ np_lock' = mutex_unlock(t)
  /\ rpc' = [rpc EXCEPT ![t] = Returns(Unlocked(t), e)]

\* err = e; goto out;  (or falling through to out with err = e)
GotoOut(t, e) ==
  /\ rpc' = [rpc EXCEPT ![t].pc = "out", ![t].err = e]
  /\ UNCHANGED np_lock

\* Lines 39-49: the three returns in front of the lock.
netfs_S_file_set_translator(t) ==
  /\ rpc[t].pc = "idle"
  /\ \E user \in BOOLEAN :
       IF ~user
       THEN rpc' = [rpc EXCEPT ![t] =
                      EarlyReturn("netfs_S_file_set_translator", EOPNOTSUPP)]
       ELSE \E pf \in PassiveFlags, af \in ActiveFlags :
              IF FS_TRANS_SET \notin pf /\ FS_TRANS_SET \notin af
              THEN rpc' = [rpc EXCEPT ![t] =
                             EarlyReturn("netfs_S_file_set_translator", OK)]
              ELSE \E terminated \in BOOLEAN :
                     rpc' = [rpc EXCEPT ![t] =
                       IF ~terminated
                       THEN EarlyReturn("netfs_S_file_set_translator", EINVAL)
                       ELSE Entered("netfs_S_file_set_translator", pf, af)]
  /\ UNCHANGED <<np_lock, dev, iovars, pgvars>>

\* Lines 51-83: the active translator is validated and told to go away.
\* owner: is one of the user's uids 0 or the node's owner (lines 60-62)?
\* control: has the node an active translator (line 73)?
FstActive(t) ==
  /\ rpc[t].pc = "fst_active"
  /\ IF FS_TRANS_SET \notin rpc[t].active_flags
     THEN /\ rpc' = [rpc EXCEPT ![t].pc = "fst_passive"]
          /\ UNCHANGED np_lock
     ELSE \E verr \in CalleeErrors :
       IF verr # OK THEN GotoOut(t, verr)
       ELSE \E owner \in BOOLEAN :
         IF ~owner THEN ReturnUnlocked(t, EBUSY)
         ELSE \E cerr \in CalleeErrors :
           IF cerr # OK THEN GotoOut(t, cerr)
           ELSE \E control \in BOOLEAN :
             IF control /\ FS_TRANS_EXCL \notin rpc[t].active_flags
             THEN /\ np_lock' = mutex_unlock(t)
                  /\ rpc' = [rpc EXCEPT ![t] =
                               [Unlocked(t) EXCEPT !.pc = "fst_goaway"]]
             ELSE /\ rpc' = [rpc EXCEPT ![t].pc = "fst_passive"]
                  /\ UNCHANGED np_lock
  /\ UNCHANGED <<dev, iovars, pgvars>>

\* Lines 77-80: fsys_goaway, called with the lock released; its error is
\* returned from here, the lock not being held.
FstGoaway(t) ==
  /\ rpc[t].pc = "fst_goaway"
  /\ \E gerr \in GoawayErrors :
       rpc' = [rpc EXCEPT ![t] =
                 IF gerr \notin {OK, "MIG_SERVER_DIED", "MACH_SEND_INVALID_DEST"}
                 THEN Returns(rpc[t], gerr)
                 ELSE [rpc[t] EXCEPT !.pc = "relock", !.err = OK]]
  /\ UNCHANGED <<np_lock, dev, iovars, pgvars>>

\* Lines 103-185: the passive translator is set, with its short-circuited
\* forms.  short: is newmode S_IFBLK, S_IFCHR or S_IFLNK (lines 106-120)?
\* args: are the arguments of that translator there (lines 133, 142, 158)?
\* perr is the error of the last call made (lines 149-181).
SetPassive(t) ==
  IF FS_TRANS_SET \notin rpc[t].passive_flags
  THEN GotoOut(t, rpc[t].err)
  ELSE \E short \in BOOLEAN :
         IF short
         THEN \E args \in BOOLEAN :
                IF ~args THEN ReturnUnlocked(t, EINVAL)
                ELSE \E perr \in CalleeErrors : GotoOut(t, perr)
         ELSE \E perr \in CalleeErrors : GotoOut(t, perr)

\* Lines 95-101: fshelp_set_active.
SetActive(t) ==
  IF FS_TRANS_SET \in rpc[t].active_flags
  THEN \E aerr \in CalleeErrors :
         IF aerr # OK THEN GotoOut(t, aerr) ELSE SetPassive(t)
  ELSE SetPassive(t)

\* Lines 85-93: the exclusive check of the passive translator, then the
\* rest of the handler down to out.
FstPassive(t) ==
  /\ rpc[t].pc = "fst_passive"
  /\ IF /\ FS_TRANS_SET \in rpc[t].passive_flags
        /\ FS_TRANS_EXCL \in rpc[t].passive_flags
     THEN \E xerr \in CalleeErrors :
            IF xerr # OK THEN GotoOut(t, xerr)
            ELSE \E istranslated \in BOOLEAN :
                   IF istranslated THEN GotoOut(t, EBUSY) ELSE SetActive(t)
     ELSE SetActive(t)
  /\ UNCHANGED <<dev, iovars, pgvars>>

\* Lines 34-41 of part_001: the two returns in front of the lock.
diskfs_S_io_write(t) ==
  /\ rpc[t].pc = "idle"
  /\ \E cred, o_write \in BOOLEAN :
       rpc' = [rpc EXCEPT ![t] =
                 IF ~cred THEN EarlyReturn("diskfs_S_io_write", EOPNOTSUPP)
                 ELSE IF ~o_write THEN EarlyReturn("diskfs_S_io_write", EBADF)
                 ELSE Entered("diskfs_S_io_write", {}, {})]
  /\ UNCHANGED <<np_lock, dev, iovars, pgvars>>

\* Lines 43-80 of part_001: the file is grown (a failure goes to out), then
\* written; either way err is what out returns.
IowBody(t) ==
  /\ rpc[t].pc = "iow_body"
  /\ \E grows \in BOOLEAN :
       IF grows
       THEN \E gerr \in CalleeErrors :
              IF gerr # OK THEN GotoOut(t, gerr)
              ELSE \E werr \in CalleeErrors : GotoOut(t, werr)
       ELSE \E werr \in CalleeErrors : GotoOut(t, werr)
  /\ UNCHANGED <<dev, iovars, pgvars>>

\* The out label of both handlers: mutex_unlock (&np->lock); return err;
Out(t) ==
  /\ rpc[t].pc = "out"
  /\ ReturnUnlocked(t, rpc[t].err)
  /\ UNCHANGED <<dev, iovars, pgvars>>

NodeNext ==
  \/ \E t \in Threads : netfs_S_file_set_translator(t)
  \/ \E t \in Threads : diskfs_S_io_write(t)
  \/ \E t \in Threads : mutex_lock(t)
  \/ \E t \in Threads : FstActive(t)
  \/ \E t \in Threads : FstGoaway(t)
  \/ \E t \in Threads : FstPassive(t)
  \/ \E t \in Threads : IowBody(t)
  \/ \E t \in Threads : Out(t)

\* The pager takes no part: one device stands for all.
NodeInit == Init /\ ~dev.readonly /\ ~dev.serial

NodeSpec == NodeInit /\ [][NodeNext]_vars

(***************************************************************************)
(* C20.  The node lock is balanced in netfs_S_file_set_translator and      *)
(* diskfs_S_io_write: a call holds np->lock exactly between a mutex_lock   *)
(* and the mutex_unlock that follows it, never unlocks while not holding,  *)
(* and has released every acquisition once when it returns, by whichever   *)
(* path (EBUSY, EINVAL, out, or the error of fsys_goaway with the lock     *)
(* dropped); a return in front of the first mutex_lock does not touch the  *)
(* lock.                                                                   *)
(***************************************************************************)
C20_NodeLockBalance ==
  \A t \in Threads :
    /\ ~rpc[t].loose
    /\ rpc[t].unlocked <= rpc[t].locked
    /\ Holds(t) <=> rpc[t].locked = rpc[t].unlocked + 1
    /\ rpc[t].pc = "idle" =>
         (~Holds(t) /\ rpc[t].locked = rpc[t].unlocked)
    /\ rpc[t].early => (rpc[t].locked = 0 /\ rpc[t].unlocked = 0)
    /\ \A n \in DOMAIN np_lock : Cardinality(np_lock[n]) <= 1

\* One call has returned the error of fsys_goaway with the lock dropped,
\* after another, on the same node, took the lock twice and returned EINVAL.
C20_Witness ==
  \E t, u \in Threads :
    /\ rpc[t].fn = "netfs_S_file_set_translator" /\ rpc[t].pc = "idle"
    /\ rpc[t].err = EBUSY /\ rpc[t].locked = 1 /\ rpc[t].unlocked = 1
    /\ rpc[u].fn = "netfs_S_file_set_translator" /\ rpc[u].pc = "idle"
    /\ rpc[u].err = EINVAL /\ rpc[u].locked = 2 /\ rpc[u].unlocked = 2

====
